---- MODULE Spec2Model ----
(***************************************************************************)
(* Model of the rust-6502-sim emulator core: the Proc6502 micro-operation  *)
(* state machine (src/src/processor.rs), the SimpleBus (src/src/bus.rs)    *)
(* and the Memory bus device (src/src/memory.rs).                          *)
(*                                                                         *)
(* A fatal error (panic!, todo!, arithmetic overflow in a build with       *)
(* overflow checks) is recorded in `panicked`; the fields mutated before   *)
(* the fault keep their new values and no further call is made.            *)
(***************************************************************************)
EXTENDS Integers, Naturals, Sequences, FiniteSets, TLC

VARIABLES
    proc,             \* the Proc6502 struct (all fields but the constant table)
    registered,       \* SimpleBus.registered: the devices in registration order
    overflow_checks,  \* build profile: TRUE = debug (overflow panics), FALSE = release (wraps)
    panicked,         \* "none" or the kind of fatal error that ended the last call
    cfg,              \* the memory image the run was set up with
    call,             \* the last operation the driver called
    ticks,            \* number of tick() calls made
    ret,              \* what the last tick() returned
    last_op,          \* the micro-op the last tick() dequeued
    cur_opcode,       \* the opcode byte of the last decoded instruction
    cost_sum,         \* sum of 1 + Len(operations) over the decoded instructions
    bus_reads,        \* the addresses tick() has read from the bus, in order
    bus_writes,       \* the <<address, data>> pairs tick() has written to the bus
    io,               \* the last direct call on the bus or on a device, with its result
    bus_ops           \* number of direct calls that wrote to the bus or to a device

vars == <<proc, registered, overflow_checks, panicked, cfg, call, ticks, ret,
          last_op, cur_opcode, cost_sum, bus_reads, bus_writes, io, bus_ops>>

----------------------------------------------------------------------------
(* Bounds *)

MaxTicks == 24

----------------------------------------------------------------------------
(* Machine words: Address = u16, Data = u8 *)

AddressSpace == 65536
DataSpace == 256

RECURSIVE BitAnd(_, _)
BitAnd(m, n) ==
    IF m = 0 \/ n = 0 THEN 0
    ELSE ((m % 2) * (n % 2)) + 2 * BitAnd(m \div 2, n \div 2)

RECURSIVE BitOr(_, _)
BitOr(m, n) ==
    IF m = 0 THEN n
    ELSE IF n = 0 THEN m
    ELSE (IF (m % 2) + (n % 2) > 0 THEN 1 ELSE 0) + 2 * BitOr(m \div 2, n \div 2)

RECURSIVE BitXor(_, _)
BitXor(m, n) ==
    IF m = 0 THEN n
    ELSE IF n = 0 THEN m
    ELSE (((m % 2) + (n % 2)) % 2) + 2 * BitXor(m \div 2, n \div 2)

\* u16 `+=`: panics when overflow checks are on, wraps otherwise.
AddAddress(v, k, chk) ==
    IF v + k < AddressSpace THEN [val |-> v + k, fault |-> "none"]
    ELSE IF chk THEN [val |-> v, fault |-> "overflow"]
    ELSE [val |-> (v + k) % AddressSpace, fault |-> "none"]

\* u16 `-`: panics when overflow checks are on, wraps otherwise.
SubAddress(v, k, chk) ==
    IF v >= k THEN [val |-> v - k, fault |-> "none"]
    ELSE IF chk THEN [val |-> v, fault |-> "overflow"]
    ELSE [val |-> (v - k + AddressSpace) % AddressSpace, fault |-> "none"]

----------------------------------------------------------------------------
(* Memory (src/src/memory.rs): a sparse map from offset to byte *)

Memory_new(start, end) ==
    [lower_bound |-> start, upper_bound |-> end, mem |-> << >>]

is_readable_for(d, address) ==
    address >= d.lower_bound /\ address <= d.upper_bound

is_writable_for(d, address) ==
    address >= d.lower_bound /\ address <= d.upper_bound

MapGet(m, k) == IF k \in DOMAIN m THEN m[k] ELSE 0

MapInsert(m, k, v) == [o \in (DOMAIN m) \cup {k} |-> IF o = k THEN v ELSE m[o]]

\* do_read / do_write return the fault of the offset subtraction as well.
mem_get(d, off) ==
    [val |-> IF off.fault = "none" THEN MapGet(d.mem, off.val) ELSE 0,
     fault |-> off.fault]

do_read(d, address, chk) == mem_get(d, SubAddress(address, d.lower_bound, chk))

mem_insert(d, off, data) ==
    [dev |-> IF off.fault = "none"
             THEN [d EXCEPT !.mem = MapInsert(d.mem, off.val, data)]
             ELSE d,
     fault |-> off.fault]

\* Mutant of do_write: the byte is stored under the address, not the offset.
do_write_absolute(d, address, data, chk) ==
    mem_insert(d, [val |-> address, fault |-> "none"], data)

do_write(d, address, data, chk) ==
    mem_insert(d, SubAddress(address, d.lower_bound, chk), data)

\* Memory::write(start, data): do_write then addr += 1, for each byte.
RECURSIVE Memory_write_from(_, _, _, _)
Memory_write_step(w, nxt, data, chk) ==
    IF w.fault # "none" THEN w
    ELSE IF nxt.fault # "none" THEN [dev |-> w.dev, fault |-> nxt.fault]
    ELSE Memory_write_from(w.dev, nxt.val, Tail(data), chk)

Memory_write_from(d, addr, data, chk) ==
    IF data = << >> THEN [dev |-> d, fault |-> "none"]
    ELSE Memory_write_step(do_write(d, addr, Head(data), chk),
                           AddAddress(addr, 1, chk), data, chk)

Memory_write(d, start, data, chk) == Memory_write_from(d, start, data, chk)

----------------------------------------------------------------------------
(* SimpleBus (src/src/bus.rs) *)

RECURSIVE Bus_read_from(_, _, _, _)
Bus_read_from(devs, i, address, chk) ==
    IF i > Len(devs) THEN 0
    ELSE IF is_readable_for(devs[i], address)
         THEN do_read(devs[i], address, chk).val
         ELSE Bus_read_from(devs, i + 1, address, chk)

\* Mutant of Bus_read: the devices are scanned from the last one registered.
Bus_read_last_match(devs, address, chk) ==
    Bus_read_from([i \in DOMAIN devs |-> devs[Len(devs) + 1 - i]], 1, address, chk)

Bus_read(devs, address, chk) == Bus_read_from(devs, 1, address, chk)

\* SimpleBus::write visits the devices in registration order; `delivered`
\* lists the devices whose do_write it called.
RECURSIVE Bus_write_from(_, _, _, _, _, _)

\* Mutant of Bus_write_from: the walk stops at the first writable device.
Bus_write_first_match(devs, i, address, data, chk, delivered) ==
    IF i > Len(devs) THEN [registered |-> devs, delivered |-> delivered]
    ELSE IF is_writable_for(devs[i], address)
         THEN [registered |->
                   [devs EXCEPT ![i] = do_write(devs[i], address, data, chk).dev],
               delivered |-> Append(delivered, i)]
         ELSE Bus_write_from(devs, i + 1, address, data, chk, delivered)

Bus_write_from(devs, i, address, data, chk, delivered) ==
    IF i > Len(devs) THEN [registered |-> devs, delivered |-> delivered]
    ELSE IF is_writable_for(devs[i], address)
         THEN Bus_write_from(
                  [devs EXCEPT ![i] = do_write(devs[i], address, data, chk).dev],
                  i + 1, address, data, chk, Append(delivered, i))
         ELSE Bus_write_from(devs, i + 1, address, data, chk, delivered)

Bus_write(devs, address, data, chk) ==
    Bus_write_from(devs, 1, address, data, chk, << >>).registered

----------------------------------------------------------------------------
(* Micro-operations (enum InternalOperations) and addressing modes *)

NOP == [op |-> "NOP"]
BRK == [op |-> "BRK"]
ReadAddressLo == [op |-> "ReadAddressLo"]
ReadAddressHi == [op |-> "ReadAddressHi"]
IncrementPCBySignedOperand == [op |-> "IncrementPCBySignedOperand"]
IncrementAddressByReg(reg) == [op |-> "IncrementAddressByReg", reg |-> reg]
FetchOpcode == [op |-> "FetchOpcode"]
FetchOperand == [op |-> "FetchOperand"]
FetchAddrLo == [op |-> "FetchAddrLo"]
FetchAddrHi == [op |-> "FetchAddrHi"]
FetchImmediateOperand == [op |-> "FetchImmediateOperand"]
FetchZeroPageAddr == [op |-> "FetchZeroPageAddr"]
CompareToRegister(src, reg2) == [op |-> "CompareToRegister", src |-> src, reg2 |-> reg2]
StoreToRegister(src, dst) == [op |-> "StoreToRegister", src |-> src, dst |-> dst]
WriteToAddress(src, addr) == [op |-> "WriteToAddress", src |-> src, addr |-> addr]
ComputeAndStore(left, dst, func) ==
    [op |-> "ComputeAndStore", left |-> left, dst |-> dst, func |-> func]
JumpToAddress == [op |-> "JumpToAddress"]

Accumulator == [mode |-> "Accumulator"]
Absolute == [mode |-> "Absolute"]
AbsIndexed(reg) == [mode |-> "AbsIndexed", reg |-> reg]
Immediate == [mode |-> "Immediate"]
Implied == [mode |-> "Implied"]
Indirect == [mode |-> "Indirect"]
IndexedIndirect == [mode |-> "IndexedIndirect"]
IndirectIndexed == [mode |-> "IndirectIndexed"]
Relative == [mode |-> "Relative"]
ZeroPage == [mode |-> "ZeroPage"]
ZeroPageIndexed(reg) == [mode |-> "ZeroPageIndexed", reg |-> reg]
None == [mode |-> "None"]

fetch_operations_for_mode(mode) ==
    CASE mode.mode = "Accumulator" -> << >>
      [] mode.mode = "Absolute" -> <<FetchAddrLo, FetchAddrHi>>
      [] mode.mode = "AbsIndexed" ->
            <<FetchAddrLo, FetchAddrHi, IncrementAddressByReg(mode.reg)>>
      [] mode.mode = "Immediate" -> <<FetchImmediateOperand>>
      [] mode.mode = "Implied" -> << >>
      [] mode.mode = "Indirect" ->
            <<FetchAddrLo, FetchAddrHi, ReadAddressLo, ReadAddressHi>>
      [] mode.mode = "IndexedIndirect" -> << >>
      [] mode.mode = "IndirectIndexed" -> << >>
      [] mode.mode = "Relative" -> <<FetchOperand, IncrementPCBySignedOperand>>
      [] mode.mode = "ZeroPage" -> <<FetchZeroPageAddr>>
      [] mode.mode = "ZeroPageIndexed" ->
            <<FetchZeroPageAddr, IncrementAddressByReg(mode.reg)>>

Instruction(mnemonic, operations, addressing) ==
    [mnemonic |-> mnemonic, operations |-> operations, addressing |-> addressing]

create_instruction_for_mode(opcode, mnemonic, mode, operations) ==
    <<opcode, Instruction(mnemonic, fetch_operations_for_mode(mode) \o operations, mode)>>

\* The last addressing-mode index the loop `for b in 0..7` visits.
LastModeIndex == 6

\* Mutant of create_instructions_at: the mode index is not shifted into bbb.
create_instructions_at_unshifted(b, base_opcode, mnemonic, mode, opcode_operations) ==
    IF mode # None
    THEN <<<<BitOr(base_opcode, BitAnd(\h1C, b)),
             Instruction(mnemonic,
                         fetch_operations_for_mode(mode) \o opcode_operations,
                         mode)>>>>
    ELSE << >>

\* One (opcode, Instruction) pair per Some(mode) at index b, in index order.
create_instructions_at(b, base_opcode, mnemonic, mode, opcode_operations) ==
    IF mode # None
    THEN <<<<BitOr(base_opcode, BitAnd(\h1C, (b * 4) % DataSpace)),
             Instruction(mnemonic,
                         fetch_operations_for_mode(mode) \o opcode_operations,
                         mode)>>>>
    ELSE << >>

RECURSIVE create_instructions_from(_, _, _, _, _)
create_instructions_from(b, base_opcode, mnemonic, modes, opcode_operations) ==
    IF b > LastModeIndex THEN << >>
    ELSE create_instructions_at(b, base_opcode, mnemonic, modes[b + 1],
                                opcode_operations)
         \o create_instructions_from(b + 1, base_opcode, mnemonic, modes,
                                     opcode_operations)

create_instructions(base_opcode, mnemonic, modes, opcode_operations) ==
    create_instructions_from(0, base_opcode, mnemonic, modes, opcode_operations)

make(f) == <<ComputeAndStore("A", "A", f)>>

fam0 == <<Immediate, ZeroPage, None, Absolute, None, ZeroPageIndexed("X"), None,
          AbsIndexed("X")>>

fam1 == <<IndirectIndexed, ZeroPage, Immediate, Absolute, None, ZeroPageIndexed("X"),
          None, AbsIndexed("X")>>

fam2_y == <<Immediate, ZeroPage, None, Absolute, None, ZeroPageIndexed("Y"), None,
            AbsIndexed("Y")>>

\* Every (opcode, Instruction) pair in the order create6502 inserts it.
inserted_instructions ==
    <<create_instruction_for_mode(\hEA, "NOP", Implied, <<NOP>>)>>
    \o <<create_instruction_for_mode(\h00, "BRK", Implied, <<BRK>>)>>
    \o create_instructions(\h80, "STY", fam0, <<WriteToAddress("Y", "InternalAddress")>>)
    \o create_instructions(\hA0, "LDY", fam0, <<StoreToRegister("InternalOperand", "Y")>>)
    \o create_instructions(\hC0, "CPY", fam0, <<CompareToRegister("InternalOperand", "Y")>>)
    \o create_instructions(\hE0, "CPX", fam0, <<CompareToRegister("InternalOperand", "X")>>)
    \o create_instructions(\h01, "ORA", fam1, make("OR"))
    \o create_instructions(\h21, "AND", fam1, make("AND"))
    \o create_instructions(\h41, "EOR", fam1, make("EOR"))
    \o create_instructions(\h61, "ADC", fam1, make("AddWithCarry"))
    \o create_instructions(\h81, "STA", fam1, <<WriteToAddress("A", "InternalAddress")>>)
    \o create_instructions(\hA1, "LDA", fam1, <<StoreToRegister("InternalOperand", "A")>>)
    \o create_instructions(\hC1, "CMP", fam1, make("COMPARE"))
    \o create_instructions(\hE1, "SBC", fam1, make("SubtractWithBorrow"))
    \o create_instructions(\hA2, "LDX", fam2_y, <<StoreToRegister("InternalOperand", "X")>>)

\* HashMap insert/extend: a later pair with the same key replaces an earlier one.
HashMapOf(ps) ==
    [k \in {ps[i][1] : i \in DOMAIN ps} |->
        ps[CHOOSE i \in DOMAIN ps :
               ps[i][1] = k /\ \A j \in DOMAIN ps : ps[j][1] = k => j <= i][2]]

map_o_instructions == HashMapOf(inserted_instructions)

BootSequence == <<FetchAddrLo, FetchAddrHi, JumpToAddress>>

BootLocation == 4092

\* Mutant of create6502: boot_cycles left at its literal 0.
create6502_no_boot_cycles ==
    [pc |-> BootLocation, x |-> 0, y |-> 0, a |-> 0,
     internal_address |-> 0, internal_operand |-> 0,
     at_break |-> FALSE, overflow |-> FALSE, carry |-> FALSE, status |-> 0,
     operation_stream |-> BootSequence,
     total_cycles |-> 0,
     boot_cycles |-> 0]

create6502 ==
    [pc |-> BootLocation, x |-> 0, y |-> 0, a |-> 0,
     internal_address |-> 0, internal_operand |-> 0,
     at_break |-> FALSE, overflow |-> FALSE, carry |-> FALSE, status |-> 0,
     operation_stream |-> BootSequence,
     total_cycles |-> 0,
     boot_cycles |-> Len(BootSequence)]

set_reg(p, reg, value) ==
    CASE reg = "X" -> [p EXCEPT !.x = value]
      [] reg = "Y" -> [p EXCEPT !.y = value]
      [] reg = "A" -> [p EXCEPT !.a = value]
      [] reg = "InternalOperand" -> [p EXCEPT !.internal_operand = value]

get_reg(p, reg) ==
    CASE reg = "X" -> p.x
      [] reg = "Y" -> p.y
      [] reg = "A" -> p.a
      [] reg = "InternalOperand" -> p.internal_operand

get_addr_reg(p, reg) ==
    CASE reg = "PC" -> p.pc
      [] reg = "InternalAddress" -> p.internal_address

\* Mutant of get_user_cycles: the subtraction without the saturation test.
get_user_cycles_unsaturated(p) == p.total_cycles - p.boot_cycles

get_user_cycles(p) ==
    IF p.total_cycles < p.boot_cycles THEN 0
    ELSE p.total_cycles - p.boot_cycles

----------------------------------------------------------------------------
(* Proc6502::tick, one operator per match arm.  Each returns the processor, *)
(* the bus devices and the fault that ended the arm ("none": it completed). *)

Outcome(p, devs, fault) == [proc |-> p, registered |-> devs, fault |-> fault]

exec_NOP(p, devs, chk) == Outcome(p, devs, "none")

\* Mutant of exec_BRK: the flag is not set.
exec_BRK_no_flag(p, devs, chk) == Outcome(p, devs, "none")

exec_BRK(p, devs, chk) == Outcome([p EXCEPT !.at_break = TRUE], devs, "none")

\* self.pc += 1
advance_pc(p, devs, n) == Outcome([p EXCEPT !.pc = n.val], devs, n.fault)

\* Mutant of decode: an opcode absent from the table is skipped.
decode_skip_unknown(p, devs, chk, opcode, instructions) ==
    IF opcode \in DOMAIN instructions
    THEN advance_pc([p EXCEPT !.operation_stream = @ \o instructions[opcode].operations],
                    devs, AddAddress(p.pc, 1, chk))
    ELSE advance_pc(p, devs, AddAddress(p.pc, 1, chk))

decode(p, devs, chk, opcode, instructions) ==
    IF opcode \in DOMAIN instructions
    THEN advance_pc([p EXCEPT !.operation_stream = @ \o instructions[opcode].operations],
                    devs, AddAddress(p.pc, 1, chk))
    ELSE Outcome(p, devs, "decode")

exec_FetchOpcode(p, devs, chk) ==
    decode(p, devs, chk, Bus_read(devs, p.pc, chk), map_o_instructions)

exec_FetchOperand(p, devs, chk) ==
    Outcome([p EXCEPT !.internal_operand = Bus_read(devs, p.internal_address, chk)],
            devs, "none")

\* Mutant of exec_FetchAddrLo: the low byte is OR-ed into the old address.
exec_FetchAddrLo_or(p, devs, chk) ==
    advance_pc([p EXCEPT !.internal_address = BitOr(@, Bus_read(devs, p.pc, chk))],
               devs, AddAddress(p.pc, 1, chk))

exec_FetchAddrLo(p, devs, chk) ==
    advance_pc([p EXCEPT !.internal_address = Bus_read(devs, p.pc, chk)],
               devs, AddAddress(p.pc, 1, chk))

exec_FetchAddrHi(p, devs, chk) ==
    advance_pc([p EXCEPT !.internal_address =
                    BitOr(BitAnd(@, \h00FF), Bus_read(devs, p.pc, chk) * 256)],
               devs, AddAddress(p.pc, 1, chk))

exec_FetchImmediateOperand(p, devs, chk) ==
    advance_pc([p EXCEPT !.internal_operand = Bus_read(devs, p.pc, chk)],
               devs, AddAddress(p.pc, 1, chk))

\* Mutant of exec_WriteToAddress: the byte is written at the address in PC.
exec_WriteToAddress_at_pc(p, devs, chk, src, addr) ==
    Outcome(p, Bus_write(devs, p.pc, get_reg(p, src), chk), "none")

exec_WriteToAddress(p, devs, chk, src, addr) ==
    Outcome(p, Bus_write(devs, get_addr_reg(p, addr), get_reg(p, src), chk), "none")

\* Mutant of exec_JumpToAddress: PC keeps its value.
exec_JumpToAddress_stay(p, devs, chk) == Outcome(p, devs, "none")

exec_JumpToAddress(p, devs, chk) ==
    Outcome([p EXCEPT !.pc = p.internal_address], devs, "none")

exec_CompareToRegister(p, devs, chk) == Outcome(p, devs, "todo")

\* self.internal_address += ...
advance_address(p, devs, n) ==
    Outcome([p EXCEPT !.internal_address = n.val], devs, n.fault)

\* Mutant of exec_IncrementAddressByReg: the index register is not added.
exec_IncrementAddressByReg_no_index(p, devs, chk, reg) == Outcome(p, devs, "none")

exec_IncrementAddressByReg(p, devs, chk, reg) ==
    advance_address(p, devs, AddAddress(p.internal_address, get_reg(p, reg), chk))

exec_FetchZeroPageAddr(p, devs, chk) ==
    advance_pc([p EXCEPT !.internal_address = Bus_read(devs, p.pc, chk)],
               devs, AddAddress(p.pc, 1, chk))

exec_StoreToRegister(p, devs, chk, src, dst) ==
    Outcome(set_reg(p, dst, get_reg(p, src)), devs, "none")

\* u8::carrying_add
carrying_add(lhs, rhs, carry) ==
    [result |-> (lhs + rhs + (IF carry THEN 1 ELSE 0)) % DataSpace,
     carry |-> lhs + rhs + (IF carry THEN 1 ELSE 0) >= DataSpace]

\* Mutant of add_with_carry: the overflow flag is computed after A is stored.
add_with_carry_after_store(p, devs, dst, r) ==
    Outcome([set_reg(p, dst, r.result) EXCEPT
                 !.carry = r.carry,
                 !.overflow =
                     BitAnd(BitAnd(BitXor(set_reg(p, dst, r.result).a, r.result),
                                   BitXor(p.internal_operand, r.result)),
                            \h80) # 0],
            devs, "none")

add_with_carry(p, devs, dst, r) ==
    Outcome(set_reg([p EXCEPT !.carry = r.carry,
                              !.overflow =
                                  BitAnd(BitAnd(BitXor(p.a, r.result),
                                                BitXor(p.internal_operand, r.result)),
                                         \h80) # 0],
                    dst, r.result),
            devs, "none")

exec_ComputeAndStore(p, devs, chk, left, dst, func) ==
    IF func = "AddWithCarry"
    THEN add_with_carry(p, devs, dst, carrying_add(p.a, p.internal_operand, p.carry))
    ELSE Outcome(p, devs, "todo")

execute(x, p, devs, chk) ==
    CASE x.op = "NOP" -> exec_NOP(p, devs, chk)
      [] x.op = "BRK" -> exec_BRK(p, devs, chk)
      [] x.op = "FetchOpcode" -> exec_FetchOpcode(p, devs, chk)
      [] x.op = "FetchOperand" -> exec_FetchOperand(p, devs, chk)
      [] x.op = "FetchAddrLo" -> exec_FetchAddrLo(p, devs, chk)
      [] x.op = "FetchAddrHi" -> exec_FetchAddrHi(p, devs, chk)
      [] x.op = "FetchImmediateOperand" -> exec_FetchImmediateOperand(p, devs, chk)
      [] x.op = "WriteToAddress" -> exec_WriteToAddress(p, devs, chk, x.src, x.addr)
      [] x.op = "JumpToAddress" -> exec_JumpToAddress(p, devs, chk)
      [] x.op = "CompareToRegister" -> exec_CompareToRegister(p, devs, chk)
      [] x.op = "IncrementAddressByReg" ->
            exec_IncrementAddressByReg(p, devs, chk, x.reg)
      [] x.op = "FetchZeroPageAddr" -> exec_FetchZeroPageAddr(p, devs, chk)
      [] x.op = "StoreToRegister" -> exec_StoreToRegister(p, devs, chk, x.src, x.dst)
      [] x.op = "ComputeAndStore" ->
            exec_ComputeAndStore(p, devs, chk, x.left, x.dst, x.func)
      [] x.op \in {"DummyForOverlap", "ReadFromAccumulator", "AddIndexLo", "AluIncr",
                   "IncrementPCBySignedOperand", "ReadAddressLo", "ReadAddressHi"} ->
            Outcome(p, devs, "none")

\* self.total_cycles += 1
tick_count(p) == [p EXCEPT !.total_cycles = @ + 1]

\* Mutant of tick_refill: refills when one micro-op is still pending.
tick_refill_early(p) ==
    IF Len(p.operation_stream) <= 1
    THEN [p EXCEPT !.operation_stream = @ \o <<FetchOpcode>>]
    ELSE p

\* if self.operation_stream.is_empty() { extend([FetchOpcode]) }
tick_refill(p) ==
    IF p.operation_stream = << >>
    THEN [p EXCEPT !.operation_stream = @ \o <<FetchOpcode>>]
    ELSE p

\* let x = self.operation_stream.remove(0)
tick_dequeue(p) == [p EXCEPT !.operation_stream = Tail(@)]

\* (self.pc, self.at_break)
tick_return(p) == [returned |-> TRUE, pc |-> p.pc, halted |-> p.at_break]

NoReturn == [returned |-> FALSE, pc |-> 0, halted |-> FALSE]

tick_result(x, r) ==
    [proc |-> r.proc, registered |-> r.registered, fault |-> r.fault, x |-> x,
     ret |-> IF r.fault = "none" THEN tick_return(r.proc) ELSE NoReturn]

tick_match(p, devs, chk) ==
    tick_result(Head(p.operation_stream),
                execute(Head(p.operation_stream), tick_dequeue(p), devs, chk))

tick(p, devs, chk) == tick_match(tick_refill(tick_count(p)), devs, chk)

\* fn reset(&mut self) {}
reset(p) == p

----------------------------------------------------------------------------
(* Setup: the memory image of tests/processor_tests.rs and main.rs *)

\* STA_ZP_X_TEST.hex_dump: NOP; LDX #$05; LDA #$AA; STA $01,X; NOP; BRK; NOP; NOP
ProgStaZpX ==
    <<\hEA, \hA2, \h05, \hA9, \hAA, \h95, \h01, \hEA, \h00, \hEA, \hEA>>
\* NOP; BRK
ProgNopBrk == <<\hEA, \h00>>
\* NOP; an opcode absent from the table
ProgIllegal == <<\hEA, \hFF>>
\* BRK; an opcode absent from the table
ProgBrkIllegal == <<\h00, \hFF>>
\* LDA #$50; ADC #$50; ADC #$C0; BRK
ProgAdc == <<\hA9, \h50, \h69, \h50, \h69, \hC0, \h00>>
\* ADC (zp),Y; BRK
ProgAdcIndY == <<\h61, \h00>>
\* LDA #$AA; STA (zp),Y; BRK
ProgStaIndY == <<\hA9, \hAA, \h81, \h00>>
\* LDA (zp),Y; BRK
ProgLdaIndY == <<\hA1, \h00>>
\* ORA #$01; BRK
ProgOra == <<\h09, \h01, \h00>>
\* CPY #$01; BRK
ProgCpy == <<\hC0, \h01, \h00>>
\* LDA #$77; STA $1234; BRK
ProgStaAbs == <<\hA9, \h77, \h8D, \h34, \h12, \h00>>
\* LDA #$33; STA $10; LDA #$00; LDA $10; BRK
ProgLdaZp == <<\hA9, \h33, \h85, \h10, \hA9, \h00, \hA5, \h10, \h00>>
\* LDX #$05; LDA #$AA; STA $FF,X; BRK
ProgZpWrap == <<\hA2, \h05, \hA9, \hAA, \h95, \hFF, \h00>>
\* LDY #$02; LDX $10,Y; BRK
ProgLdxZpY == <<\hA0, \h02, \hB6, \h10, \h00>>
\* NOP, then whatever the unwritten memory after it holds
ProgNop == <<\hEA>>
\* LDA #$77; STA $1234; STA $0010; BRK
ProgStaAbsTwice == <<\hA9, \h77, \h8D, \h34, \h12, \h8D, \h10, \h00, \h00>>

Programs ==
    {ProgStaZpX, ProgNopBrk, ProgIllegal, ProgBrkIllegal, ProgAdc, ProgAdcIndY,
     ProgStaIndY, ProgLdaIndY, ProgOra, ProgCpy, ProgStaAbs, ProgLdaZp, ProgZpWrap,
     ProgLdxZpY, ProgNop, ProgStaAbsTwice}

\* Where the image holds the two bytes of the start address: the location the
\* test and main.rs write, and the 6502 reset vector.
Vectors == {\h0FFC, \hFFFC}

\* Where the program is loaded.
Starts == {\h0200, \hFFFE}

\* The second bulk write runs only if the first one did not fault.
write_program_to_memory(w, start, object_code, chk) ==
    IF w.fault # "none" THEN w ELSE Memory_write(w.dev, start, object_code, chk)

make_eprom_for_program(vector, object_code, start, chk) ==
    write_program_to_memory(
        Memory_write(Memory_new(\h0000, \hFFFF), vector,
                     <<BitAnd(start, \h00FF), BitAnd(start, \hFF00) \div 256>>, chk),
        start, object_code, chk)

register_device(devs, device) == Append(devs, device)

----------------------------------------------------------------------------
(* The state machine *)

NoOp == [op |-> "none"]

NoIo == [op |-> "none"]

\* The bus write of one micro-op: the_bus.borrow().write(...) in tick().
bus_writes_of(x, p) ==
    IF x.op = "WriteToAddress"
    THEN <<<<get_addr_reg(p, x.addr), get_reg(p, x.src)>>>>
    ELSE << >>

\* The bus reads of one micro-op: the_bus.borrow().read(...) in tick().
bus_reads_of(x, p) ==
    IF x.op \in {"FetchOpcode", "FetchAddrLo", "FetchAddrHi",
                 "FetchImmediateOperand", "FetchZeroPageAddr"}
    THEN <<p.pc>>
    ELSE IF x.op = "FetchOperand" THEN <<p.internal_address>>
    ELSE << >>

\* 1 + the length of the micro-op list of the instruction a FetchOpcode decoded.
decoded_cost(x, opcode) ==
    IF x = FetchOpcode /\ opcode \in DOMAIN map_o_instructions
    THEN 1 + Len(map_o_instructions[opcode].operations)
    ELSE 0

Init ==
    /\ overflow_checks \in BOOLEAN
    /\ cfg \in [vector : Vectors, start : Starts, prog : Programs]
    /\ \E m \in {make_eprom_for_program(cfg.vector, cfg.prog, cfg.start,
                                        overflow_checks)} :
           /\ m.fault = "none"
           /\ registered = register_device(<< >>, m.dev)
    /\ proc = create6502
    /\ panicked = "none"
    /\ call = "create6502"
    /\ ticks = 0
    /\ ret = NoReturn
    /\ last_op = NoOp
    /\ cur_opcode = -1
    /\ cost_sum = 0
    /\ bus_reads = << >>
    /\ bus_writes = << >>
    /\ io = NoIo
    /\ bus_ops = 0

Tick ==
    /\ panicked = "none"
    /\ ticks < MaxTicks
    /\ \E r \in {tick(proc, registered, overflow_checks)} :
           /\ proc' = r.proc
           /\ registered' = r.registered
           /\ panicked' = r.fault
           /\ ret' = r.ret
           /\ last_op' = r.x
           /\ cur_opcode' = IF r.x = FetchOpcode
                            THEN Bus_read(registered, proc.pc, overflow_checks)
                            ELSE cur_opcode
           /\ cost_sum' = cost_sum + decoded_cost(r.x, Bus_read(registered, proc.pc,
                                                               overflow_checks))
           /\ bus_reads' = bus_reads \o bus_reads_of(r.x, proc)
           /\ bus_writes' = bus_writes \o bus_writes_of(r.x, proc)
    /\ ticks' = ticks + 1
    /\ call' = "tick"
    /\ UNCHANGED <<overflow_checks, cfg, io, bus_ops>>

Reset ==
    /\ panicked = "none"
    /\ proc' = reset(proc)
    /\ call' = "reset"
    /\ UNCHANGED <<registered, overflow_checks, panicked, cfg, ticks, ret, last_op,
                   cur_opcode, cost_sum, bus_reads, bus_writes, io, bus_ops>>

Next == Tick \/ Reset

Spec == Init /\ [][Next]_vars

----------------------------------------------------------------------------
(* The same machine on a family of programs that add two bytes *)

AluValues ==
    {\h00, \h01, \h02, \h3F, \h40, \h50, \h7F, \h80, \h81, \hC0, \hFE, \hFF}

\* LDA #a; ADC #m; BRK
ProgAdcOf(a, m) == <<\hA9, a, \h69, m, \h00>>
\* LDA #$FF; ADC #$01 (sets the carry); LDA #a; ADC #m; BRK
ProgAdcCarryOf(a, m) == <<\hA9, \hFF, \h69, \h01, \hA9, a, \h69, m, \h00>>

AluPrograms ==
    {ProgAdcOf(a, m) : a \in AluValues, m \in AluValues}
        \cup {ProgAdcCarryOf(a, m) : a \in AluValues, m \in AluValues}

AluInit ==
    /\ overflow_checks \in BOOLEAN
    /\ cfg \in [vector : {BootLocation}, start : {\h0200}, prog : AluPrograms]
    /\ \E m \in {make_eprom_for_program(cfg.vector, cfg.prog, cfg.start,
                                        overflow_checks)} :
           /\ m.fault = "none"
           /\ registered = register_device(<< >>, m.dev)
    /\ proc = create6502
    /\ panicked = "none"
    /\ call = "create6502"
    /\ ticks = 0
    /\ ret = NoReturn
    /\ last_op = NoOp
    /\ cur_opcode = -1
    /\ cost_sum = 0
    /\ bus_reads = << >>
    /\ bus_writes = << >>
    /\ io = NoIo
    /\ bus_ops = 0

SpecAlu == AluInit /\ [][Next]_vars

----------------------------------------------------------------------------
(* The bus and its Memory devices driven directly, as main.rs and the tests  *)
(* do when they build and load the machine: devices are registered, then     *)
(* read and written through the bus or through the holder's own handle.      *)

MaxBusOps == 2

\* Device ranges: two that overlap at 0x0012, and one that ends at 0xFFFF.
BusRanges ==
    {[lower |-> \h0010, upper |-> \h0012],
     [lower |-> \h0012, upper |-> \h0014],
     [lower |-> \hFFFE, upper |-> \hFFFF]}

BusAddresses == {\h0010, \h0012, \h0014, \h0016, \hFFFE, \hFFFF}

BusData == {\h55, \hAA}

BulkData == {<<\h21, \h22>>, <<\h21, \h22, \h23>>}

\* The orders in which the devices of a bus are registered.
BusConfigs ==
    {<<Memory_new(\h0010, \h0012), Memory_new(\h0012, \h0014)>>,
     <<Memory_new(\h0012, \h0014), Memory_new(\h0010, \h0012)>>,
     <<Memory_new(\hFFFE, \hFFFF), Memory_new(\h0010, \h0012)>>}

NoImage == [vector |-> BootLocation, start |-> 0, prog |-> << >>]

\* Everything but the bus: a fresh processor that is never ticked.
Untouched ==
    /\ cfg = NoImage
    /\ proc = create6502
    /\ panicked = "none"
    /\ call = "create6502"
    /\ ticks = 0
    /\ ret = NoReturn
    /\ last_op = NoOp
    /\ cur_opcode = -1
    /\ cost_sum = 0
    /\ bus_reads = << >>
    /\ bus_writes = << >>
    /\ io = NoIo
    /\ bus_ops = 0

BusInit ==
    /\ overflow_checks \in BOOLEAN
    /\ registered = << >>
    /\ Untouched

\* One Memory device in the hands of its holder.
MemoryInit ==
    /\ overflow_checks \in BOOLEAN
    /\ \E r \in BusRanges :
           registered = register_device(<< >>, Memory_new(r.lower, r.upper))
    /\ Untouched

\* bus.register_device(&device) of a new, empty Memory
RegisterDevice ==
    /\ panicked = "none"
    /\ \E c \in BusConfigs :
           /\ Len(registered) < Len(c)
           /\ registered' = register_device(registered, c[Len(registered) + 1])
           /\ \A i \in DOMAIN registered :
                  /\ registered[i].lower_bound = c[i].lower_bound
                  /\ registered[i].upper_bound = c[i].upper_bound
    /\ io' = [op |-> "register_device", dev |-> Len(registered) + 1]
    /\ UNCHANGED <<proc, overflow_checks, panicked, cfg, call, ticks, ret, last_op,
                   cur_opcode, cost_sum, bus_reads, bus_writes, bus_ops>>

\* bus.write(address, data)
BusWrite ==
    /\ panicked = "none"
    /\ bus_ops < MaxBusOps
    /\ \E address \in BusAddresses, data \in BusData :
         \E w \in {Bus_write_from(registered, 1, address, data, overflow_checks,
                                  << >>)} :
           /\ registered' = w.registered
           /\ io' = [op |-> "bus_write", address |-> address, data |-> data,
                     delivered |-> w.delivered]
    /\ bus_ops' = bus_ops + 1
    /\ UNCHANGED <<proc, overflow_checks, panicked, cfg, call, ticks, ret, last_op,
                   cur_opcode, cost_sum, bus_reads, bus_writes>>

\* bus.read(address)
BusRead ==
    /\ panicked = "none"
    /\ \E address \in BusAddresses :
           io' = [op |-> "bus_read", address |-> address,
                  val |-> Bus_read(registered, address, overflow_checks)]
    /\ UNCHANGED <<proc, registered, overflow_checks, panicked, cfg, call, ticks, ret,
                   last_op, cur_opcode, cost_sum, bus_reads, bus_writes, bus_ops>>

\* device.borrow_mut().do_write(address, data) through the holder's handle
DoWrite ==
    /\ panicked = "none"
    /\ bus_ops < MaxBusOps
    /\ \E i \in DOMAIN registered, address \in BusAddresses, data \in BusData :
         \E w \in {do_write(registered[i], address, data, overflow_checks)} :
           /\ registered' = [registered EXCEPT ![i] = w.dev]
           /\ panicked' = w.fault
           /\ io' = [op |-> "do_write", dev |-> i, address |-> address,
                     data |-> data]
    /\ bus_ops' = bus_ops + 1
    /\ UNCHANGED <<proc, overflow_checks, cfg, call, ticks, ret, last_op,
                   cur_opcode, cost_sum, bus_reads, bus_writes>>

\* device.borrow().do_read(address) through the holder's handle
DoRead ==
    /\ panicked = "none"
    /\ \E i \in DOMAIN registered, address \in BusAddresses :
         \E r \in {do_read(registered[i], address, overflow_checks)} :
           /\ panicked' = r.fault
           /\ io' = [op |-> "do_read", dev |-> i, address |-> address,
                     val |-> r.val]
    /\ UNCHANGED <<proc, registered, overflow_checks, cfg, call, ticks, ret,
                   last_op, cur_opcode, cost_sum, bus_reads, bus_writes, bus_ops>>

\* device.borrow_mut().write(start, data): the bulk load
BulkWrite ==
    /\ panicked = "none"
    /\ bus_ops < MaxBusOps
    /\ \E i \in DOMAIN registered, start \in BusAddresses, data \in BulkData :
         \E w \in {Memory_write(registered[i], start, data, overflow_checks)} :
           /\ registered' = [registered EXCEPT ![i] = w.dev]
           /\ panicked' = w.fault
           /\ io' = [op |-> "write", dev |-> i, start |-> start, data |-> data]
    /\ bus_ops' = bus_ops + 1
    /\ UNCHANGED <<proc, overflow_checks, cfg, call, ticks, ret, last_op,
                   cur_opcode, cost_sum, bus_reads, bus_writes>>

BusNext == RegisterDevice \/ BusWrite \/ BusRead \/ DoWrite

SpecBus == BusInit /\ [][BusNext]_vars

MemoryNext == DoWrite \/ DoRead \/ BulkWrite

SpecMemory == MemoryInit /\ [][MemoryNext]_vars

----------------------------------------------------------------------------
(* A bus whose devices include a SimpleBusDevice (src/src/bus.rs).  The      *)
(* devices sit in RefCells: `borrowed` is the set of devices whose do_write  *)
(* is running, each under the borrow_mut() that called it.                   *)

MaxDevices == 2

\* make_device(bus): a device that holds a weak reference to the bus.
make_device ==
    [bus |-> "bus", data |-> << >>, lower_bound |-> 0, upper_bound |-> 100]

IsSimpleBusDevice(d) == "bus" \in DOMAIN d

\* dyn BusDevice: SimpleBusDevice::is_writable_for is true for every address.
dyn_is_writable_for(d, address) ==
    IF IsSimpleBusDevice(d) THEN TRUE ELSE is_writable_for(d, address)

\* SimpleBus::write from device i on.  d.borrow() of a device that is mutably
\* borrowed panics; Memory::do_write stores the byte; SimpleBusDevice::do_write
\* calls SimpleBus::write on the same bus again while it stays borrowed.
RECURSIVE SimpleBus_write_from(_, _, _, _, _, _)
RECURSIVE dyn_do_write(_, _, _, _, _, _)

SimpleBus_write_from(w, i, address, data, chk, borrowed) ==
    IF w.fault # "none" \/ i > Len(w.registered) THEN w
    ELSE IF i \in borrowed THEN [w EXCEPT !.fault = "borrow"]
    ELSE IF dyn_is_writable_for(w.registered[i], address)
         THEN SimpleBus_write_from(
                  dyn_do_write([w EXCEPT !.delivered = Append(@, i)], i, address,
                               data, chk, borrowed),
                  i + 1, address, data, chk, borrowed)
         ELSE SimpleBus_write_from(w, i + 1, address, data, chk, borrowed)

\* The outcome r of Memory::do_write on device i: the device as it is left, and
\* the panic of `address - self.lower_bound` when there is one.
Memory_do_write_on(w, i, r) ==
    [w EXCEPT !.registered[i] = r.dev, !.fault = r.fault]

dyn_do_write(w, i, address, data, chk, borrowed) ==
    IF IsSimpleBusDevice(w.registered[i])
    THEN SimpleBus_write_from(w, 1, address, data, chk, borrowed \cup {i})
    ELSE Memory_do_write_on(w, i, do_write(w.registered[i], address, data, chk))

SimpleBus_write(devs, address, data, chk) ==
    SimpleBus_write_from([registered |-> devs, delivered |-> << >>, fault |-> "none"],
                         1, address, data, chk, {})

DeviceInit ==
    /\ overflow_checks \in BOOLEAN
    /\ registered = << >>
    /\ Untouched

\* bus.register_device(&device) of a new, empty Memory
RegisterMemory ==
    /\ panicked = "none"
    /\ bus_ops = 0
    /\ Len(registered) < MaxDevices
    /\ \E r \in BusRanges :
           registered' = register_device(registered, Memory_new(r.lower, r.upper))
    /\ io' = [op |-> "register_device", dev |-> Len(registered) + 1]
    /\ UNCHANGED <<proc, overflow_checks, panicked, cfg, call, ticks, ret, last_op,
                   cur_opcode, cost_sum, bus_reads, bus_writes, bus_ops>>

\* bus.register_device(&make_device(bus))
RegisterSimpleBusDevice ==
    /\ panicked = "none"
    /\ bus_ops = 0
    /\ Len(registered) < MaxDevices
    /\ registered' = register_device(registered, make_device)
    /\ io' = [op |-> "register_device", dev |-> Len(registered) + 1]
    /\ UNCHANGED <<proc, overflow_checks, panicked, cfg, call, ticks, ret, last_op,
                   cur_opcode, cost_sum, bus_reads, bus_writes, bus_ops>>

\* bus.borrow().write(address, data)
DeviceBusWrite ==
    /\ panicked = "none"
    /\ bus_ops < MaxBusOps
    /\ \E address \in BusAddresses, data \in BusData :
         \E w \in {SimpleBus_write(registered, address, data, overflow_checks)} :
           /\ registered' = w.registered
           /\ panicked' = w.fault
           /\ io' = [op |-> "bus_write", address |-> address, data |-> data,
                     delivered |-> w.delivered]
    /\ bus_ops' = bus_ops + 1
    /\ UNCHANGED <<proc, overflow_checks, cfg, call, ticks, ret, last_op,
                   cur_opcode, cost_sum, bus_reads, bus_writes>>

DeviceNext == RegisterMemory \/ RegisterSimpleBusDevice \/ DeviceBusWrite

SpecDevice == DeviceInit /\ [][DeviceNext]_vars

----------------------------------------------------------------------------
(* Properties *)

\* A step of Tick (Reset leaves ticks alone).
TickStep == ticks' = ticks + 1

\* The byte a FetchOpcode executed in this state would read.
OpcodeAtPC == Bus_read(registered, proc.pc, overflow_checks)

\* The image the test builds: start address stored where the code boots from.
TestImage(prog) ==
    cfg.vector = BootLocation /\ cfg.start = \h0200 /\ cfg.prog = prog

\* C1: every tick dequeues and executes exactly the micro-op at the front of
\* the queue; a FetchOpcode is enqueued only by a tick that finds the queue
\* empty, exactly one, and it is the micro-op that tick dequeues.
C1_OneMicroOpPerTick ==
    [][TickStep =>
         /\ proc.operation_stream # << >> =>
               /\ last_op' = Head(proc.operation_stream)
               /\ last_op' # FetchOpcode
               /\ proc'.operation_stream = Tail(proc.operation_stream)
         /\ proc.operation_stream = << >> =>
               /\ last_op' = FetchOpcode
               /\ proc'.operation_stream =
                      IF OpcodeAtPC \in DOMAIN map_o_instructions
                      THEN map_o_instructions[OpcodeAtPC].operations
                      ELSE << >>
         /\ \A i \in DOMAIN proc'.operation_stream :
               proc'.operation_stream[i] # FetchOpcode]_vars

C1_Witness ==
    /\ ticks > 3
    /\ last_op = FetchOpcode
    /\ Len(proc.operation_stream) >= 2

\* C2 (as claimed): a fresh processor has PC = 0xFFFC and the boot queue, and
\* with 0x00 at 0xFFFC and 0x02 at 0xFFFD on the bus PC = 0x0200 after 3 ticks.
C2_ResetScenario ==
    /\ ticks = 0 =>
          /\ proc.pc = \hFFFC
          /\ proc.operation_stream = <<FetchAddrLo, FetchAddrHi, JumpToAddress>>
    /\ (/\ ticks = 3
        /\ Bus_read(registered, \hFFFC, overflow_checks) = \h00
        /\ Bus_read(registered, \hFFFD, overflow_checks) = \h02) =>
          proc.pc = \h0200

\* C3: scenario A: once the run of NOP; LDX #$05; LDA #$AA; STA $01,X; NOP; BRK
\* has halted, the memory byte at 0x0006 is 0xAA.
C3_ScenarioA ==
    (TestImage(ProgStaZpX) /\ proc.at_break) =>
        do_read(registered[1], \h0006, overflow_checks).val = \hAA

C3_Witness ==
    /\ TestImage(ProgStaZpX)
    /\ ret.returned /\ ret.halted /\ last_op = BRK
    /\ proc.x = \h05 /\ proc.a = \hAA
    /\ do_read(registered[1], \h0006, overflow_checks).val = \hAA

\* C4 (as claimed): a FetchOpcode that reads a table opcode at PC = p completes
\* with PC = p + 1 (as a 16-bit value), the queue holding exactly that
\* instruction's micro-op list, and every other register unchanged.
C4_FetchOpcodeDecodes ==
    [][(/\ TickStep
        /\ proc.operation_stream = << >>
        /\ OpcodeAtPC \in DOMAIN map_o_instructions) =>
          /\ panicked' = "none"
          /\ proc'.pc = (proc.pc + 1) % AddressSpace
          /\ proc'.operation_stream = map_o_instructions[OpcodeAtPC].operations
          /\ proc' = [proc EXCEPT !.pc = proc'.pc,
                                  !.operation_stream = proc'.operation_stream,
                                  !.total_cycles = proc'.total_cycles]]_vars

\* C5: a FetchOpcode that reads a byte absent from the instruction table ends
\* the tick in a fatal decode error: no return value, PC not advanced, nothing
\* enqueued.
C5_UnknownOpcodeFatal ==
    [][(/\ TickStep
        /\ proc.operation_stream = << >>
        /\ OpcodeAtPC \notin DOMAIN map_o_instructions) =>
          /\ panicked' = "decode"
          /\ ~ret'.returned
          /\ proc'.pc = proc.pc
          /\ proc'.operation_stream = << >>]_vars

C5_Witness ==
    /\ panicked = "decode"
    /\ last_op = FetchOpcode
    /\ cur_opcode = \hFF

\* The table opcodes whose addressing mode or ALU function is a placeholder.
UndefinedOpcodes ==
    {o \in DOMAIN map_o_instructions :
        \/ map_o_instructions[o].addressing.mode \in
               {"IndexedIndirect", "IndirectIndexed", "Indirect", "Relative"}
        \/ \E i \in DOMAIN map_o_instructions[o].operations :
               \/ map_o_instructions[o].operations[i].op = "CompareToRegister"
               \/ /\ map_o_instructions[o].operations[i].op = "ComputeAndStore"
                  /\ map_o_instructions[o].operations[i].func \in
                         {"OR", "AND", "EOR", "COMPARE", "SubtractWithBorrow"}}

\* C6 (as claimed): an instruction whose addressing mode or ALU function is
\* undefined never runs to completion; its queue drains only by a fatal error.
C6_UndefinedIsFatal ==
    (cur_opcode \in UndefinedOpcodes /\ proc.operation_stream = << >>) =>
        panicked # "none"

\* C7 (as claimed): after reset() the queue is the boot sequence and the
\* registers have their construction values.
C7_ResetReprimes ==
    call = "reset" =>
        /\ proc.operation_stream = <<FetchAddrLo, FetchAddrHi, JumpToAddress>>
        /\ proc.pc = create6502.pc
        /\ proc.a = 0 /\ proc.x = 0 /\ proc.y = 0

\* C8 (as claimed): halted is false on the ticks before BRK executes, true on
\* the tick that executes BRK, and every later tick counts a cycle, consumes one
\* micro-op and returns halted = true.
C8_HaltedEveryLaterTick ==
    [][TickStep =>
         /\ (~proc.at_break /\ last_op' # BRK /\ ret'.returned) => ~ret'.halted
         /\ last_op' = BRK => (ret'.returned /\ ret'.halted)
         /\ proc.at_break =>
               /\ proc'.total_cycles = proc.total_cycles + 1
               /\ last_op' = Head(proc.operation_stream \o <<FetchOpcode>>)
               /\ ret'.returned /\ ret'.halted]_vars

\* C8 (amended): halted is false on the ticks before BRK executes, true on the
\* tick that executes BRK, and every later tick counts a cycle and consumes one
\* micro-op; a later tick that returns, returns halted = true.
C8_HaltedSticky ==
    [][TickStep =>
         /\ (~proc.at_break /\ last_op' # BRK /\ ret'.returned) => ~ret'.halted
         /\ last_op' = BRK => (ret'.returned /\ ret'.halted)
         /\ proc.at_break =>
               /\ proc'.total_cycles = proc.total_cycles + 1
               /\ last_op' = Head(proc.operation_stream \o <<FetchOpcode>>)
               /\ ret'.returned => ret'.halted]_vars

C8_Witness ==
    /\ proc.at_break
    /\ last_op = FetchOpcode
    /\ ret.returned /\ ret.halted

\* C9: the cycle counter counts every tick, so after n ticks get_user_cycles
\* is max(0, n - 3): 0 up to the third tick, never negative.
C9_UserCycles ==
    /\ proc.total_cycles = ticks
    /\ get_user_cycles(proc) = IF ticks > 3 THEN ticks - 3 ELSE 0

C9_Witness ==
    /\ ticks = 3
    /\ proc.operation_stream = << >>
    /\ get_user_cycles(proc) = 0

\* C10: on the tick that first returns halted, get_user_cycles is the sum of
\* 1 + Len(micro-op list) over the executed instructions: 4 for NOP; BRK and 16
\* for NOP; LDX #$05; LDA #$AA; STA $01,X; NOP; BRK.
C10_CyclesAtHalt ==
    [][(TickStep /\ ~proc.at_break /\ proc'.at_break) =>
         /\ get_user_cycles(proc') = cost_sum'
         /\ TestImage(ProgNopBrk) => get_user_cycles(proc') = 4
         /\ TestImage(ProgStaZpX) => get_user_cycles(proc') = 16]_vars

C10_Witness ==
    /\ TestImage(ProgStaZpX)
    /\ last_op = BRK /\ ret.halted
    /\ get_user_cycles(proc) = 16

----------------------------------------------------------------------------
(* Properties of the bus and of the Memory device *)

\* The devices of the bus whose range holds the address.
Covering(address) ==
    {i \in DOMAIN registered :
        /\ registered[i].lower_bound <= address
        /\ address <= registered[i].upper_bound}

\* The byte device i stores for the address (0 if it stores none).
StoredAt(devs, i, address) ==
    IF address - devs[i].lower_bound \in DOMAIN devs[i].mem
    THEN devs[i].mem[address - devs[i].lower_bound]
    ELSE 0

Least(S) == CHOOSE i \in S : \A j \in S : i <= j

\* C11: Bus.read(address) returns the byte of the first device in registration
\* order whose range holds the address, whatever later devices hold there, and
\* 0 if no registered device is readable for the address.
C11_ReadFirstMatch ==
    io.op = "bus_read" =>
        io.val = IF Covering(io.address) = {} THEN 0
                 ELSE StoredAt(registered, Least(Covering(io.address)), io.address)

C11_Witness ==
    /\ io.op = "bus_read"
    /\ Covering(io.address) = {1, 2}
    /\ StoredAt(registered, 1, io.address) # StoredAt(registered, 2, io.address)
    /\ StoredAt(registered, 2, io.address) # 0
    /\ io.val = StoredAt(registered, 1, io.address)

\* The devices in S, in registration order.
RECURSIVE InOrder(_)
InOrder(S) == IF S = {} THEN << >> ELSE <<Least(S)>> \o InOrder(S \ {Least(S)})

\* Device d after storing the byte for the address, everything else as before.
StoresOnly(d, e, address, data) ==
    /\ e.lower_bound = d.lower_bound
    /\ e.upper_bound = d.upper_bound
    /\ DOMAIN e.mem = DOMAIN d.mem \cup {address - d.lower_bound}
    /\ e.mem[address - d.lower_bound] = data
    /\ \A o \in DOMAIN d.mem \ {address - d.lower_bound} : e.mem[o] = d.mem[o]

\* C12: Bus.write(address, byte) calls do_write(address, byte) on every
\* registered device whose range holds the address, in registration order, and
\* on no other device: each of those devices then stores the byte and nothing
\* else changes; when no device is writable for the address no device changes.
C12_WriteFanOut ==
    [][(io'.op = "bus_write" /\ bus_ops' = bus_ops + 1) =>
         /\ io'.delivered = InOrder(Covering(io'.address))
         /\ DOMAIN registered' = DOMAIN registered
         /\ \A i \in DOMAIN registered :
               IF i \in Covering(io'.address)
               THEN StoresOnly(registered[i], registered'[i], io'.address, io'.data)
               ELSE registered'[i] = registered[i]]_vars

C12_Witness ==
    /\ io.op = "bus_write"
    /\ io.delivered = <<1, 2>>
    /\ StoredAt(registered, 1, io.address) = io.data
    /\ StoredAt(registered, 2, io.address) = io.data
    /\ \E i \in DOMAIN registered : DOMAIN registered[i].mem # {io.address - registered[i].lower_bound}

\* The addresses of the range of the device under test.
InRange == registered[1].lower_bound .. registered[1].upper_bound

\* C13: for a Memory device with range [lower, upper], lower > 0 included, and
\* an address a in the range: do_read(a) after do_write(a, v) returns v,
\* do_read of every other in-range address returns what it returned before the
\* write, and do_read of an in-range address of a device never written
\* returns 0.
C13_MemoryRoundTrip ==
    [][/\ (/\ io'.op = "do_write"
           /\ bus_ops' = bus_ops + 1
           /\ io'.address \in InRange) =>
             /\ panicked' = "none"
             /\ do_read(registered'[1], io'.address, overflow_checks)
                    = [val |-> io'.data, fault |-> "none"]
             /\ \A b \in InRange \ {io'.address} :
                    do_read(registered'[1], b, overflow_checks)
                        = do_read(registered[1], b, overflow_checks)
       /\ (/\ io'.op = "do_read"
           /\ io' # io
           /\ bus_ops = 0
           /\ io'.address \in InRange) =>
             /\ panicked' = "none"
             /\ io'.val = 0]_vars

C13_Witness ==
    /\ io.op = "do_write"
    /\ panicked = "none"
    /\ registered[1].lower_bound > 0
    /\ io.address \in InRange
    /\ io.address > registered[1].lower_bound
    /\ do_read(registered[1], io.address, overflow_checks).val = io.data
    /\ \E b \in InRange \ {io.address} :
           do_read(registered[1], b, overflow_checks).val \notin {0, io.data}

\* The target addresses of the bulk write recorded in a call record.
RunOf(c) == c.start .. (c.start + Len(c.data) - 1)

\* C14 (as claimed): a bulk write(start, bytes) that starts in the range and
\* whose last target address is at most upper, a run ending exactly at 0xFFFF
\* included, completes without error; afterwards do_read(start + i) is
\* bytes[i] for every index i and every other in-range address reads as before.
C14_BulkWriteInRange ==
    [][(/\ io'.op = "write"
        /\ bus_ops' = bus_ops + 1
        /\ io'.start \in InRange
        /\ io'.start + Len(io'.data) - 1 <= registered[1].upper_bound) =>
          /\ panicked' = "none"
          /\ \A i \in DOMAIN io'.data :
                do_read(registered'[1], io'.start + i - 1, overflow_checks).val
                    = io'.data[i]
          /\ \A b \in InRange \ RunOf(io') :
                do_read(registered'[1], b, overflow_checks)
                    = do_read(registered[1], b, overflow_checks)]_vars

\* Byte i of a bulk write lands where the run folds back to the start of the range.
WrappedTarget(d, start, i) ==
    d.lower_bound + ((start - d.lower_bound + i - 1)
                        % (d.upper_bound - d.lower_bound + 1))

\* C15 (as claimed): a bulk write(start, bytes) that starts in the range and
\* runs past upper either ends in a fatal error or wraps inside the range, and
\* it never stores a byte at an offset outside the range of the device.
C15_BulkWriteOverflowPolicy ==
    [][(/\ io'.op = "write"
        /\ bus_ops' = bus_ops + 1
        /\ io'.start \in InRange
        /\ io'.start + Len(io'.data) - 1 > registered[1].upper_bound) =>
          /\ \A o \in DOMAIN registered'[1].mem :
                o <= registered[1].upper_bound - registered[1].lower_bound
          /\ \/ panicked' # "none"
             \/ \A i \in DOMAIN io'.data :
                   \E j \in DOMAIN io'.data :
                      /\ WrappedTarget(registered[1], io'.start, j)
                             = WrappedTarget(registered[1], io'.start, i)
                      /\ do_read(registered'[1],
                                 WrappedTarget(registered[1], io'.start, i),
                                 overflow_checks).val = io'.data[j]]_vars

----------------------------------------------------------------------------
(* Properties of the micro-operations *)

\* The byte the bus holds at the k-th last address tick() has read.
ByteRead(k) ==
    Bus_read(registered, bus_reads'[Len(bus_reads') + 1 - k], overflow_checks)

\* C16: FetchAddrLo followed by FetchAddrHi leaves InternalAddress equal to
\* hi * 256 + lo, where lo is the byte FetchAddrLo read at PC and hi the byte
\* FetchAddrHi read at the next address, whatever InternalAddress held before.
C16_AddressAssembly ==
    [][(TickStep /\ last_op' = FetchAddrHi) =>
         /\ last_op = FetchAddrLo
         /\ Len(bus_reads') >= 2
         /\ bus_reads'[Len(bus_reads')] = proc.pc
         /\ bus_reads'[Len(bus_reads')]
                = (bus_reads'[Len(bus_reads') - 1] + 1) % AddressSpace
         /\ proc'.internal_address = ByteRead(1) * 256 + ByteRead(2)]_vars

C16_Witness ==
    /\ cfg.prog = ProgStaAbsTwice
    /\ last_op = FetchAddrHi
    /\ proc.internal_address = \h0010
    /\ do_read(registered[1], \h1234, overflow_checks).val = \h77

\* The addressing mode of the instruction in execution.
CurrentMode ==
    IF cur_opcode \in DOMAIN map_o_instructions
    THEN map_o_instructions[cur_opcode].addressing
    ELSE None

\* C17 (as claimed): in a ZeroPageIndexed(r) instruction with operand byte LL
\* the address after FetchZeroPageAddr and IncrementAddressByReg(r) is
\* (LL + r) mod 256: the index never carries into the high byte.
C17_ZeroPageIndexedWraps ==
    [][(/\ TickStep
        /\ last_op'.op = "IncrementAddressByReg"
        /\ CurrentMode.mode = "ZeroPageIndexed") =>
          /\ last_op = FetchZeroPageAddr
          /\ last_op'.reg = CurrentMode.reg
          /\ proc.internal_address = Bus_read(registered, bus_reads[Len(bus_reads)],
                                              overflow_checks)
          /\ proc'.internal_address
                 = (proc.internal_address + get_reg(proc, CurrentMode.reg)) % DataSpace]_vars

\* The micro-ops that consume a byte of the instruction stream.
StreamOps ==
    {"FetchOpcode", "FetchImmediateOperand", "FetchZeroPageAddr", "FetchAddrLo",
     "FetchAddrHi"}

\* C18 (as claimed): each micro-op that consumes an instruction-stream byte
\* reads it from the address held in PC and advances PC by exactly 1 (as a
\* 16-bit value); every other micro-op except JumpToAddress leaves PC
\* unchanged. A FetchOpcode that ends in a decode error consumes no byte.
C18_PCAdvance ==
    [][TickStep =>
         /\ (last_op'.op \in StreamOps /\ panicked' # "decode") =>
               /\ bus_reads' = Append(bus_reads, proc.pc)
               /\ panicked' = "none"
               /\ proc'.pc = (proc.pc + 1) % AddressSpace
         /\ last_op'.op \notin StreamOps \cup {"JumpToAddress"} =>
               proc'.pc = proc.pc]_vars

\* The sum ComputeAndStore(AddWithCarry) forms in this state.
AdcSum == proc.a + proc.internal_operand + (IF proc.carry THEN 1 ELSE 0)

Negative(v) == v >= 128

\* C19: ComputeAndStore with AddWithCarry stores (A + M + C) mod 256 in the
\* destination, sets Carry to A + M + C > 255 and sets Overflow to
\* ((A xor result) and (M xor result) and 0x80) != 0 with A the accumulator
\* before the store: A and M have the same sign and the result has the other.
C19_AddWithCarry ==
    [][(/\ TickStep
        /\ last_op'.op = "ComputeAndStore"
        /\ last_op'.func = "AddWithCarry") =>
          /\ panicked' = "none"
          /\ get_reg(proc', last_op'.dst) = AdcSum % 256
          /\ proc'.carry = (AdcSum > 255)
          /\ proc'.overflow =
                 (BitAnd(BitAnd(BitXor(proc.a, AdcSum % 256),
                                BitXor(proc.internal_operand, AdcSum % 256)),
                         \h80) # 0)
          /\ proc'.overflow =
                 (/\ Negative(proc.a) = Negative(proc.internal_operand)
                  /\ Negative(AdcSum % 256) # Negative(proc.a))]_vars

C19_Witness ==
    /\ cfg.prog = ProgAdcCarryOf(\h80, \h80)
    /\ last_op.op = "ComputeAndStore"
    /\ proc.internal_operand = \h80
    /\ proc.a = \h01
    /\ proc.carry
    /\ proc.overflow

\* C20: whatever the bus holds, the first three ticks after construction make
\* exactly two bus reads, at P and P + 1 with P the PC at construction, leave
\* PC equal to (byte at P + 1) * 256 + (byte at P) and the queue empty, and
\* fetch no opcode; the fourth tick is the first FetchOpcode.
C20_BootSequence ==
    /\ ticks \in 1..3 => last_op # FetchOpcode
    /\ ticks = 3 =>
          /\ bus_reads = <<create6502.pc, create6502.pc + 1>>
          /\ proc.pc = Bus_read(registered, create6502.pc + 1, overflow_checks) * 256
                           + Bus_read(registered, create6502.pc, overflow_checks)
          /\ proc.operation_stream = << >>
          /\ panicked = "none"
    /\ ticks = 4 =>
          /\ last_op = FetchOpcode
          /\ bus_reads = <<create6502.pc, create6502.pc + 1,
                           Bus_read(registered, create6502.pc + 1, overflow_checks) * 256
                               + Bus_read(registered, create6502.pc, overflow_checks)>>

C20_Witness ==
    /\ ticks = 4
    /\ last_op = FetchOpcode
    /\ panicked = "none"
    /\ bus_reads = <<\h0FFC, \h0FFD, \hFFFE>>
    /\ proc.pc = \hFFFF

----------------------------------------------------------------------------
(* Properties of the instruction table *)

\* The calls of create_instructions in create6502: base opcode, mnemonic, mode
\* family and the micro-ops of the operation.
FamilyCalls ==
    {<<\h80, "STY", fam0, <<WriteToAddress("Y", "InternalAddress")>>>>,
     <<\hA0, "LDY", fam0, <<StoreToRegister("InternalOperand", "Y")>>>>,
     <<\hC0, "CPY", fam0, <<CompareToRegister("InternalOperand", "Y")>>>>,
     <<\hE0, "CPX", fam0, <<CompareToRegister("InternalOperand", "X")>>>>,
     <<\h01, "ORA", fam1, make("OR")>>,
     <<\h21, "AND", fam1, make("AND")>>,
     <<\h41, "EOR", fam1, make("EOR")>>,
     <<\h61, "ADC", fam1, make("AddWithCarry")>>,
     <<\h81, "STA", fam1, <<WriteToAddress("A", "InternalAddress")>>>>,
     <<\hA1, "LDA", fam1, <<StoreToRegister("InternalOperand", "A")>>>>,
     <<\hC1, "CMP", fam1, make("COMPARE")>>,
     <<\hE1, "SBC", fam1, make("SubtractWithBorrow")>>,
     <<\hA2, "LDX", fam2_y, <<StoreToRegister("InternalOperand", "X")>>>>}

\* create6502 has returned the processor and its table.
Constructed == call \in {"create6502", "tick", "reset"}

\* The table of the processor holds, at base | (b << 2), the instruction of
\* family call c for the mode at index b.
HasEntry(c, b) ==
    /\ c[1] + 4 * b \in DOMAIN map_o_instructions
    /\ map_o_instructions[c[1] + 4 * b]
           = Instruction(c[2], fetch_operations_for_mode(c[3][b + 1]) \o c[4],
                         c[3][b + 1])

\* C21 (as claimed): every Some(mode) at index b in 0..=7 of a mode family
\* passed to create_instructions has its table entry at base_opcode | (b << 2);
\* STA abs,X at 0x9D and LDA abs,X at 0xBD are present with the prefix
\* FetchAddrLo, FetchAddrHi, IncrementAddressByReg(X).
C21_AllModesGenerated ==
    Constructed =>
        /\ \A c \in FamilyCalls : \A b \in 0..7 :
               c[3][b + 1] # None => HasEntry(c, b)
        /\ \A opcode \in {\h9D, \hBD} :
               /\ opcode \in DOMAIN map_o_instructions
               /\ SubSeq(map_o_instructions[opcode].operations, 1, 3)
                      = <<FetchAddrLo, FetchAddrHi, IncrementAddressByReg("X")>>

\* C22 (as claimed): when a load (LDA, LDX, LDY) with a ZeroPage,
\* ZeroPageIndexed or Absolute operand completes, the destination register
\* holds the byte the bus returns for the effective address, whatever
\* InternalOperand held before.
C22_LoadFromMemory ==
    [][(/\ TickStep
        /\ last_op'.op = "StoreToRegister"
        /\ last_op'.src = "InternalOperand"
        /\ CurrentMode.mode \in {"ZeroPage", "ZeroPageIndexed", "Absolute"}) =>
          /\ proc'.operation_stream = << >>
          /\ get_reg(proc', last_op'.dst)
                 = Bus_read(registered', proc.internal_address, overflow_checks)]_vars

\* The registers and flags of the processor: everything but the queue and the
\* cycle counter.
Registers(p) == [p EXCEPT !.operation_stream = << >>, !.total_cycles = 0]

\* C23: WriteToAddress{src, addr} issues exactly one bus.write(value of the
\* addr register, value of the src register), which stores that byte in the
\* Memory covering the address and nothing else, and changes no register or
\* flag; so when STA with Absolute operand bytes (lo, hi) completes, the
\* Memory holds A at hi * 256 + lo and A is unchanged.
C23_WriteToAddress ==
    [][(TickStep /\ last_op'.op = "WriteToAddress") =>
         /\ panicked' = "none"
         /\ bus_writes' = Append(bus_writes,
                                 <<get_addr_reg(proc, last_op'.addr),
                                   get_reg(proc, last_op'.src)>>)
         /\ bus_reads' = bus_reads
         /\ StoresOnly(registered[1], registered'[1],
                       get_addr_reg(proc, last_op'.addr), get_reg(proc, last_op'.src))
         /\ Registers(proc') = Registers(proc)
         /\ (CurrentMode.mode = "Absolute" /\ last_op'.src = "A") =>
               /\ proc'.operation_stream = << >>
               /\ proc'.a = proc.a
               /\ StoredAt(registered', 1,
                           Bus_read(registered, bus_reads[Len(bus_reads)],
                                    overflow_checks) * 256
                               + Bus_read(registered, bus_reads[Len(bus_reads) - 1],
                                          overflow_checks))
                      = proc.a]_vars

C23_Witness ==
    /\ cfg.prog = ProgStaAbs
    /\ last_op = WriteToAddress("A", "InternalAddress")
    /\ bus_writes = <<<<\h1234, \h77>>>>
    /\ StoredAt(registered, 1, \h1234) = \h77
    /\ proc.a = \h77

\* C24: the (opcode, instruction) pairs create6502 inserts into the table have
\* pairwise distinct opcodes, so no insertion overwrites an earlier one and the
\* table maps the opcode of every generated pair to that pair's instruction.
C24_DistinctOpcodes ==
    Constructed =>
        /\ \A i, j \in DOMAIN inserted_instructions :
               i # j => inserted_instructions[i][1] # inserted_instructions[j][1]
        /\ \A i \in DOMAIN inserted_instructions :
               /\ inserted_instructions[i][1] \in DOMAIN map_o_instructions
               /\ map_o_instructions[inserted_instructions[i][1]]
                      = inserted_instructions[i][2]
        /\ Cardinality(DOMAIN map_o_instructions) = Len(inserted_instructions)

C24_Witness ==
    /\ last_op = FetchOpcode
    /\ panicked = "none"
    /\ \E i \in DOMAIN inserted_instructions :
          /\ inserted_instructions[i][1] = cur_opcode
          /\ inserted_instructions[i][2].mnemonic = "STA"
          /\ inserted_instructions[i][2].addressing = ZeroPageIndexed("X")
          /\ proc.operation_stream = inserted_instructions[i][2].operations

\* No bus.write or bulk load ever stored a byte for the address: no device
\* covers it, or the first device covering it holds nothing there.
NeverWritten(address) ==
    \/ Covering(address) = {}
    \/ address - registered[Least(Covering(address))].lower_bound
           \notin DOMAIN registered[Least(Covering(address))].mem

\* C25 (as claimed): a FetchOpcode with PC at an address no device covers or
\* that was never written reads 0x00 and decodes it as BRK, and the tick after
\* it returns halted (the fetching tick itself returns halted only if the
\* processor had halted before): running off the loaded bytes always ends in
\* the halted state, never in an error.
C25_RunOffHalts ==
    [][TickStep =>
         /\ (proc.operation_stream = << >> /\ NeverWritten(proc.pc)) =>
               /\ last_op' = FetchOpcode
               /\ cur_opcode' = \h00
               /\ panicked' = "none"
               /\ proc'.operation_stream = <<BRK>>
               /\ ret'.returned /\ ret'.halted = proc.at_break
         /\ (last_op = FetchOpcode /\ cur_opcode = \h00
                /\ NeverWritten(bus_reads[Len(bus_reads)])) =>
               /\ last_op' = BRK
               /\ panicked' = "none"
               /\ ret'.returned /\ ret'.halted]_vars

\* C26 (as claimed): in every reachable state tick has completed without an
\* arithmetic-overflow fault and PC and InternalAddress are 16-bit values:
\* incrementing PC at 0xFFFF and indexing InternalAddress near 0xFFFF give a
\* defined 16-bit value and do not abort the tick.
C26_NoOverflowFault ==
    /\ panicked # "overflow"
    /\ proc.pc \in 0..(AddressSpace - 1)
    /\ proc.internal_address \in 0..(AddressSpace - 1)

----------------------------------------------------------------------------
(* Property of a bus that holds a SimpleBusDevice *)

\* The devices of the bus that are writable for the address.
Writable(address) ==
    {i \in DOMAIN registered : dyn_is_writable_for(registered[i], address)}

\* C27 (as claimed): Bus.write(address, data) returns after it has delivered
\* do_write to each writable registered device exactly once, in registration
\* order, also when a SimpleBusDevice made by make_device for the same bus is
\* registered, whose do_write forwards the write back into Bus.write.
C27_WriteReturnsWithReentrantDevice ==
    [][(io'.op = "bus_write" /\ bus_ops' = bus_ops + 1) =>
         /\ panicked' = "none"
         /\ io'.delivered = InOrder(Writable(io'.address))]_vars

====
